---- MODULE Spec2Model ----
(***************************************************************************)
(* The render loop of wasm_game_of_life's web front end: the scheduler      *)
(* that decides, on every requestAnimationFrame callback, how many times   *)
(* universe.tick() runs before the canvas is redrawn.                      *)
(*                                                                         *)
(* The repository holds four revisions of the loop:                        *)
(*   rev = 0  src/www/index.js 6-13        text page, a tick in each frame *)
(*   rev = 1  src/www/index.ts 145-164     fixed 30 Hz, one tick per frame *)
(*   rev = 2  src/unnamed/part_000 164-196 rate slider, 5 ms catch-up      *)
(*   rev = 3  src/www/index.ts 333-375     rate slider, idle-time budget   *)
(*                                                                         *)
(* Time is counted in units of 1/30 ms. A timestamp is a whole number of   *)
(* units; interval and delta are fractions of a unit, so that 1000 / rate  *)
(* and every sum and difference the loop forms with it are held exactly.   *)
(* The clock (performance.now()) advances between callbacks and while      *)
(* universe.tick() runs; every other statement takes no time. A callback   *)
(* starts at its frame's timestamp, or when the previous one ended if that *)
(* is later.                                                               *)
(*                                                                         *)
(* The program computes with IEEE doubles. A time that is a multiple of    *)
(* 0.5 ms is a double without rounding error, and so are the sums and      *)
(* differences of such times; the interval is one only at the slider       *)
(* positions 0, 25 and 100. Where a comparison of the code has equal       *)
(* sides in exact arithmetic and a rounded value entered it, the doubles   *)
(* may compare either way: the model then allows every outcome. Where no   *)
(* rounded value entered it, it comes out as in exact arithmetic.          *)
(*                                                                         *)
(* Specifications:                                                         *)
(*   Spec         a page under irregular frames, clicks and rate changes   *)
(*   Spec60       revision 1, unpaused, on a 60 Hz display                 *)
(*   Spec112      a slider revision at 112 Hz, unpaused, on frames         *)
(*                187.5 ms apart                                           *)
(*   SpecRegular  a canvas revision, unpaused, on a display of regular     *)
(*                period                                                   *)
(*   SpecLive     SpecRegular with frames that keep arriving               *)
(*   SpecRate     the rate slider over all its integer positions           *)
(***************************************************************************)
EXTENDS Integers, Sequences, FiniteSets, TLC

VARIABLES
    rev,             \* which revision of the page is running
    paused,          \* let paused
    interval,        \* let interval / const interval (a fraction of units)
    delta,           \* renderLoop: let delta (a fraction of units)
    deltaRound,      \* the rounding error delta carries: 0 none, 1 some,
                     \* -1 some and the double is below zero (delta = 0 here)
    lastFrameStart,  \* renderLoop: lastFrameStart / lastTime
    lastFrameEnd,    \* renderLoop (rev 3): lastFrameEnd
    tickTimes,       \* renderLoop (rev 3): tickTimes, most recent first
    fpsFrames,       \* fps.frames, most recent first
    fpsLast,         \* fps.lastFrameTimeStamp
    slider,          \* rateSlider.valueAsNumber (0 where the page has no slider)
    universe,        \* version of the automaton's cells (one more per change)
    canvas,          \* version of the cells the page shows (canvas or text)
    draws,           \* drawCells() calls (text page: renderings) so far
    now,             \* performance.now() when the event loop is idle
    raf,             \* timestamp of the last animation frame delivered
    period,          \* display refresh period; 0 = irregular frames
    frameNo,         \* animation frames delivered so far
    muts,            \* direct mutations (toggle_cell, reset_cells) so far
    ticks,           \* universe.tick() calls so far
    clicks,          \* play/pause "click" events so far, the startup one included
                     \* (the text page has no button)
    tickLog,         \* every value unshifted into tickTimes, most recent first
    frameLog,        \* every value unshifted into fps.frames, most recent first
    pauseSpan,       \* frame time spent paused since lastFrameStart
    last             \* what the most recent renderLoop iteration did

vars == <<rev, paused, interval, delta, deltaRound, lastFrameStart, lastFrameEnd, tickTimes,
          fpsFrames, fpsLast, slider, universe, canvas, draws, now, raf, period,
          frameNo, muts, ticks, clicks, tickLog, frameLog, pauseSpan, last>>

\* ---------------------------------------------------------------- bounds

\* Animation frames delivered in one run of Spec.
MaxFrames == 3
\* Direct mutations (canvas clicks, clear clicks) in one run.
MaxMutations == 1
\* Animation frames delivered in one run of the 60 Hz scenario.
MaxScenarioFrames == 24
\* Clicks on the play/pause button by the user in one run.
MaxClicks == 2
\* Animation frames delivered in one run on a regular display.
MaxRegularFrames == 150
\* Frames delivered in the 112 Hz scenario.
MaxStallFrames == 4

\* --------------------------------------------------------------- time units

\* x milliseconds in time units (1/30 ms).
Ms(x) == x * 30

Min(a, b) == IF a < b THEN a ELSE b
Max(a, b) == IF a > b THEN a ELSE b

\* ---------------------------------------------------------------- fractions

RECURSIVE Gcd(_, _)
Gcd(a, b) == IF b = 0 THEN a ELSE Gcd(b, a % b)

Lcm(a, b) == (a \div Gcd(a, b)) * b

\* The number w + n/d (d > 0) as a whole part and a fraction in lowest terms,
\* 0 <= n/d < 1: equal numbers are equal records.
Frac(w, n, d) ==
    LET m == n % d
        g == Gcd(d, m)
    IN  [w |-> w + (n \div d), n |-> m \div g, d |-> d \div g]

\* The whole number i.
Whole(i) == [w |-> i, n |-> 0, d |-> 1]

\* x + y
Plus(x, y) ==
    LET l == Lcm(x.d, y.d)
    IN  Frac(x.w + y.w, x.n * (l \div x.d) + y.n * (l \div y.d), l)

\* x - y
Minus(x, y) ==
    LET l == Lcm(x.d, y.d)
    IN  Frac(x.w - y.w, x.n * (l \div x.d) - y.n * (l \div y.d), l)

\* k * x, k a whole number
Times(k, x) == Frac(k * x.w, k * x.n, x.d)

\* x < y
Below(x, y) ==
    \/ x.w < y.w
    \/ /\ x.w = y.w
       /\ LET l == Lcm(x.d, y.d)
          IN  x.n * (l \div x.d) < y.n * (l \div y.d)

\* x <= y
AtMost(x, y) == x = y \/ Below(x, y)

\* Math.min(x, y)
Least(x, y) == IF Below(x, y) THEN x ELSE y

\* The least whole number that is not below x.
Ceiling(x) == IF x.n = 0 THEN x.w ELSE x.w + 1

\* ------------------------------------------------------------- time, sets

\* performance.now() when the module's top-level code runs.
StartTime == Ms(40)
\* Time between two animation frames: 16.667 ms (60 Hz) or a 5000 ms stall.
Gaps == {500, Ms(5000)}
\* Duration of one universe.tick(): 2 ms, or 5 ms (the whole budget of
\* revision 2).
TickCosts == {Ms(2), Ms(5)}
\* Positions of the rate slider (rateSlider.valueAsNumber): 1 Hz, 1000 Hz.
RawValues == {25, 100}

\* ------------------------------------------------------ program constants

\* this.frames.splice(100), tickTimes.splice(100)
WindowCap == 100
\* const interval = 1000 / 30
TargetHz == 30
\* performance.now() - time > 5
BudgetMs == 5
\* Math.min(100, idleTime * 4)
BudgetCapMs == 100

\* ------------------------------------------------------------ rate slider

\* The slider's rate in units of 1/5000 Hz (exact for an integer position):
\*   rate < 25:  0.2 + (rate / 25) * 0.8
\*   otherwise:  1 + Math.pow((rate - 25) / 75, 2) * 999
\* x Hz in the unit of the slider's rate (1/5000 Hz).
Hz(x) == x * 5000

\* The first branch with another slope: 0.2 + (rate / 25) * 0.9
RateLowSteep(raw) == 1000 + 180 * raw

\* The first branch: 0.2 + (rate / 25) * 0.8
RateLow(raw) == 1000 + 160 * raw
\* The second branch: 1 + Math.pow((rate - 25) / 75, 2) * 999
RateHigh(raw) == 5000 + 888 * (raw - 25) * (raw - 25)

RateOf(raw) ==
    IF raw < 25
    THEN RateLow(raw)
    ELSE RateHigh(raw)

\* interval = 1000 / rate, in time units: the quotient itself.
IntervalOf(raw) == Frac(0, Ms(1000) * 5000, RateOf(raw))

\* The handler's doubles carry no rounding error: rate / 25 and (rate - 25) /
\* 75 are whole only at the positions 0, 25 and 100, where the rate comes out
\* as 0.2, 1 and 1000 and 1000 / rate as exactly 5000, 1000 and 1; at every
\* other position the quotient, and the interval with it, is rounded.
RateExact(raw) ==
    IF raw < 25
    THEN raw % 25 = 0
    ELSE (raw - 25) % 75 = 0

\* const interval = 1000 / 30 (revision 1).
FixedInterval == Frac(0, Ms(1000), TargetHz)

\* The refresh period of a 60 Hz display: 1000 / 60 ms.
Period60 == Ms(1000) \div (2 * TargetHz)

\* The click handler without the negation: paused = paused
ToggleNone(p) == p

\* paused = !paused
Toggle(p) == ~p

\* ---------------------------------------------------------- sample windows

\* The splice left out: a.unshift(x)
RecordNoSplice(s, x) == <<x>> \o s

\* a.unshift(x); a.splice(100)
Record(s, x) ==
    LET u == <<x>> \o s
    IN  SubSeq(u, 1, Min(Len(u), WindowCap))

\* ------------------------------------------------------- double arithmetic

\* A time of x units is a double without rounding error: a multiple of 0.5 ms.
Exact(x) == x % 15 = 0

\* How a comparison whose sides are equal in exact arithmetic can come out in
\* doubles: the left side below the right one, equal to it, above it.
Roundings == {-1, 0, 1}

\* The outcomes of a comparison: decided by rounding only if its sides tie in
\* exact arithmetic and a rounded value entered it.
RoundingsOf(tie, exact) == IF tie /\ ~exact THEN Roundings ELSE {0}

\* a < b in doubles, e being the outcome of rounding at a tie.
Less(a, b, e) == Below(a, b) \/ (a = b /\ e < 0)

\* a > b in doubles, e being the outcome of rounding at a tie.
Greater(a, b, e) == Below(b, a) \/ (a = b /\ e > 0)

\* The interval in force is a double without rounding error: the slider's
\* where the handler's arithmetic is exact; never 1000 / 30.
IntervalExact == rev \in {2, 3} /\ RateExact(slider)

\* The frame at `time` meets no rounded value: its timestamp, lastFrameStart,
\* interval and delta are all free of rounding error.
Unrounded(time) ==
    /\ Exact(time) /\ Exact(lastFrameStart) /\ IntervalExact
    /\ deltaRound = 0

\* ------------------------------------------------------------- the loop

\* Skip without the pause test: if (timeDiff < interval - delta) continue;
SkipIgnoringPause(timeDiff, e) == Less(Whole(timeDiff), Minus(interval, delta), e)

\* Skip with <= for <: a tie is skipped.
SkipOnTie(timeDiff, e) ==
    paused \/ ~Greater(Whole(timeDiff), Minus(interval, delta), e)

\* if (paused || timeDiff < interval - delta) continue;
Skip(timeDiff, e) == paused \/ Less(Whole(timeDiff), Minus(interval, delta), e)

\* The sides of the time test are equal in exact arithmetic.
SkipTies(timeDiff) == ~paused /\ Whole(timeDiff) = Minus(interval, delta)

\* The clamp left out: delta stays as the loop left it.
ClampNone(d) == d

\* The debt forgotten after the loop: delta = 0
ClampZero(d) == Whole(0)

\* delta = Math.min(interval, delta)
Clamp(d) == Least(interval, d)

\* Revision 1 without Math.min: delta = delta + time - lastTime - interval
NextDelta1NoMin(timeDiff) == Minus(Plus(delta, Whole(timeDiff)), interval)

\* Revision 1: delta = Math.min(interval, delta + time - lastTime - interval)
NextDelta1(timeDiff) ==
    Least(interval, Minus(Plus(delta, Whole(timeDiff)), interval))

\* Revision 1: the rounding error of the new delta, acc being delta + time -
\* lastTime. Where the exact result is 0 the double is 0 or a rounding error
\* of either sign; above one interval Math.min returns interval itself.
Residue1(acc, exact) ==
    IF exact \/ Below(interval, Minus(acc, interval)) THEN {0}
    ELSE IF acc = interval THEN Roundings
    ELSE {1}

\* Revision 2: performance.now() - time > 5
OverBudget2(t, time, e) == Greater(Whole(t - time), Whole(Ms(BudgetMs)), e)

\* The budget without the idle time: const maxFrameTime = 100
MaxFrameTimeCapOnly(idleTime) == Ms(BudgetCapMs)

\* Revision 3: const maxFrameTime = Math.min(100, idleTime * 4)
MaxFrameTime(idleTime) == Min(Ms(BudgetCapMs), idleTime * 4)

\* Revision 3: now - thisFrameStart > maxFrameTime
OverBudget3(t, thisFrameStart, maxFrameTime, e) ==
    Greater(Whole(t - thisFrameStart), Whole(maxFrameTime), e)

\* The catch-up loop's variables on entry: delta, the clock, no tick yet.
LoopEntry(d, t, tt) ==
    [delta |-> d, now |-> t, count |-> 0, broke |-> FALSE, started |-> t, tt |-> tt]

\* The tick after which the budget test meets a tie in exact arithmetic (the
\* clock minus the frame's timestamp equals the budget), 0 if there is none.
\* c0: the clock on entry of the loop, ts: the frame's timestamp.
TieTick(c0, ts, cost, budget) ==
    LET room == budget - (c0 - ts)
    IN  IF room >= cost
        THEN (IF room % cost = 0 THEN room \div cost ELSE 0)
        ELSE 0

\* Revision 2 with `if` for `while`: at most one tick per frame.
CatchUp2Once(st, time, cost, eLoop, eBudget) ==
    IF Greater(st.delta, interval, eLoop)
    THEN [delta |-> Minus(st.delta, interval), now |-> st.now + cost,
          count |-> st.count + 1,
          broke |-> OverBudget2(st.now + cost, time, eBudget),
          started |-> st.now, tt |-> st.tt]
    ELSE st

\* Revision 2: while (delta > interval) { ++count; universe.tick();
\*   delta -= interval; if (performance.now() - time > 5) break; }
\* st: the loop's variables (started: the clock when the latest tick began),
\* cost: what one universe.tick() takes, eLoop, eBudget: the outcome of
\* rounding where the loop test, the budget test, meets a tie.
RECURSIVE CatchUp2(_, _, _, _, _)
CatchUp2(st, time, cost, eLoop, eBudget) ==
    IF Greater(st.delta, interval, eLoop)
    THEN LET st2 == [delta |-> Minus(st.delta, interval), now |-> st.now + cost,
                     count |-> st.count + 1,
                     broke |-> OverBudget2(st.now + cost, time, eBudget),
                     started |-> st.now, tt |-> st.tt]
         IN  IF st2.broke THEN st2 ELSE CatchUp2(st2, time, cost, eLoop, eBudget)
    ELSE st

\* Revision 3 with the budget tested before each tick:
\* while (delta > interval && performance.now() - thisFrameStart <= maxFrameTime)
RECURSIVE CatchUp3BudgetFirst(_, _, _, _, _, _)
CatchUp3BudgetFirst(st, thisFrameStart, maxFrameTime, cost, eLoop, eBudget) ==
    IF /\ Greater(st.delta, interval, eLoop)
       /\ ~OverBudget3(st.now, thisFrameStart, maxFrameTime, eBudget)
    THEN LET st2 == [delta |-> Minus(st.delta, interval), now |-> st.now + cost,
                     count |-> st.count + 1, broke |-> FALSE,
                     started |-> st.now, tt |-> Record(st.tt, st.now + cost)]
         IN  CatchUp3BudgetFirst(st2, thisFrameStart, maxFrameTime, cost, eLoop, eBudget)
    ELSE [st EXCEPT !.broke = Greater(st.delta, interval, eLoop)]

\* Revision 3: while (delta > interval) { universe.tick(); delta -= interval;
\*   let now = performance.now(); tickTimes.unshift(now); tickTimes.splice(100);
\*   if (now - thisFrameStart > maxFrameTime) break; }
RECURSIVE CatchUp3(_, _, _, _, _, _)
CatchUp3(st, thisFrameStart, maxFrameTime, cost, eLoop, eBudget) ==
    IF Greater(st.delta, interval, eLoop)
    THEN LET st2 == [delta |-> Minus(st.delta, interval), now |-> st.now + cost,
                     count |-> st.count + 1,
                     broke |-> OverBudget3(st.now + cost, thisFrameStart,
                                           maxFrameTime, eBudget),
                     started |-> st.now, tt |-> Record(st.tt, st.now + cost)]
         IN  IF st2.broke THEN st2
             ELSE CatchUp3(st2, thisFrameStart, maxFrameTime, cost, eLoop, eBudget)
    ELSE st

\* The loop test `delta > interval` met equal sides in exact arithmetic; r:
\* the loop as it runs when such a test is false (it ends the loop there).
LoopTies(r) == r.delta = interval /\ ~r.broke

\* Revisions 2 and 3: the rounding error of delta after the loop and the
\* clamp. Above one interval Math.min returns interval itself, and so it does
\* where the loop test found delta equal to interval.
Residue(r, exact, eLoop) ==
    IF exact \/ Below(interval, r.delta) THEN 0
    ELSE IF r.delta = interval /\ ~r.broke /\ eLoop = 0 THEN 0
    ELSE 1

\* The values of performance.now() after each of k ticks that started at c0,
\* most recent first.
TickStamps(c0, cost, k) == [i \in 1..k |-> c0 + (k - i + 1) * cost]

\* What the iteration before the latest one did (kept inside `last`).
Prev == [k |-> last.k, broke |-> last.broke, debt |-> last.debt,
         interval |-> last.interval]

\* What a renderLoop iteration that hits `continue` leaves behind (rSkip: the
\* outcome of rounding in its time test).
SkipInfo(ts, c0, timeDiff, e) ==
    [kind |-> "skip", paused |-> paused, ts |-> ts, c0 |-> c0, end |-> c0,
     timeDiff |-> timeDiff, interval |-> interval, delta0 |-> delta,
     acc |-> delta, k |-> 0, broke |-> FALSE, debt |-> delta, idle |-> 0,
     budget |-> 0, started |-> c0, pauseSpan |-> pauseSpan,
     fpsSeen |-> -1, tpsSeen |-> -1, rSkip |-> e, rLoop |-> 0, rBudget |-> 0,
     prev |-> Prev]

\* What a renderLoop iteration that runs to its end leaves behind:
\* acc: delta on entry of the catch-up loop, k: ticks run, broke: the loop
\* ended by break, debt: delta before the clamp, started: the clock when the
\* latest tick began, end: the clock at the end of the iteration, fpsSeen:
\* the samples fps.frames held when fps.render() summarized it, tpsSeen: the
\* samples tickTimes held when the tps figure was computed (-1: not read),
\* rSkip, rLoop, rBudget: the outcome of rounding in the time test, the loop
\* test and the budget test where they met a tie (0 where they met none).
RunInfo(ts, c0, timeDiff, acc, r, idle, budget, span, rnd) ==
    [kind |-> "run", paused |-> paused, ts |-> ts, c0 |-> c0, end |-> r.now,
     timeDiff |-> timeDiff, interval |-> interval, delta0 |-> delta,
     acc |-> acc, k |-> r.count, broke |-> r.broke, debt |-> r.delta,
     idle |-> idle, budget |-> budget, started |-> r.started,
     pauseSpan |-> span, fpsSeen |-> Len(fpsFrames'),
     tpsSeen |-> IF rev = 3 THEN Len(tickTimes) ELSE -1,
     rSkip |-> rnd[1], rLoop |-> rnd[2], rBudget |-> rnd[3], prev |-> Prev]

\* What an iteration of the text page leaves behind: it ran one tick.
TextInfo(ts, c0, cost) ==
    [kind |-> "text", paused |-> FALSE, ts |-> ts, c0 |-> c0, end |-> c0 + cost,
     timeDiff |-> ts - raf, interval |-> Whole(0), delta0 |-> Whole(0),
     acc |-> Whole(0), k |-> 1, broke |-> FALSE, debt |-> Whole(0), idle |-> 0, budget |-> 0, started |-> c0,
     pauseSpan |-> 0, fpsSeen |-> -1, tpsSeen |-> -1, rSkip |-> 0, rLoop |-> 0,
     rBudget |-> 0, prev |-> Prev]

\* drawCells(): the canvas shows the current cells.
DrawCells ==
    /\ canvas' = universe'
    /\ draws' = draws + 1

\* pre.textContent = universe.render(), before the tick of the same
\* iteration: the page shows the cells as they were.
RenderText ==
    /\ canvas' = universe
    /\ draws' = draws + 1

\* Frame time that passed between two iterations that both found paused true,
\* since lastFrameStart and up to the frame at raf + g.
SpanAt(g) ==
    IF paused /\ last.kind # "init" /\ last.paused THEN pauseSpan + g ELSE pauseSpan

\* `continue` preceded by drawCells().
ContinueDrawing(g, ts, c0, timeDiff, e) ==
    /\ last' = SkipInfo(ts, c0, timeDiff, e)
    /\ pauseSpan' = SpanAt(g)
    /\ now' = c0
    /\ raf' = ts
    /\ frameNo' = frameNo + 1
    /\ UNCHANGED <<rev, paused, interval, delta, deltaRound, lastFrameStart,
                   lastFrameEnd, tickTimes, fpsFrames, fpsLast, slider, universe,
                   period, muts, ticks, clicks, tickLog, frameLog>>
    /\ DrawCells

\* The part of an iteration every revision shares when it hits `continue`:
\* nothing of the program changes, no tick, no drawCells.
Continue(g, ts, c0, timeDiff, e) ==
    /\ last' = SkipInfo(ts, c0, timeDiff, e)
    /\ pauseSpan' = SpanAt(g)
    /\ now' = c0
    /\ raf' = ts
    /\ frameNo' = frameNo + 1
    /\ UNCHANGED <<rev, paused, interval, delta, deltaRound, lastFrameStart,
                   lastFrameEnd, tickTimes, fpsFrames, fpsLast, slider, universe,
                   canvas, draws, period, muts, ticks, clicks, tickLog, frameLog>>

\* The environment's part of delivering the frame at raf + g.
FrameGuard(g, bound) ==
    /\ frameNo < bound
    /\ period # 0 => g = period

\* The text page (src/www/index.js 7-12): one iteration of while (true), from
\* one `await new Promise(requestAnimationFrame)` to the next: the text is
\* rendered, then the universe ticks; no pause, no interval.
RenderLoop0(g, cost) ==
    /\ rev = 0
    /\ LET time == raf + g
           c0 == Max(now, time)
       IN  /\ RenderText
           /\ universe' = universe + 1
           /\ ticks' = ticks + 1
           /\ now' = c0 + cost
           /\ raf' = time
           /\ frameNo' = frameNo + 1
           /\ last' = TextInfo(time, c0, cost)
           /\ UNCHANGED <<rev, paused, interval, delta, deltaRound, lastFrameStart,
                          lastFrameEnd, tickTimes, fpsFrames, fpsLast, slider,
                          period, muts, clicks, tickLog, frameLog, pauseSpan>>

\* Revision 1 (src/www/index.ts 150-163): one iteration of while (true).
RenderLoop1(g, cost) ==
    /\ rev = 1
    /\ LET time == raf + g
           c0 == Max(now, time)
           timeDiff == time - lastFrameStart
           exact == Unrounded(time)
       IN  \E eSkip \in RoundingsOf(SkipTies(timeDiff), exact) :
           IF Skip(timeDiff, eSkip)
           THEN Continue(g, time, c0, timeDiff, eSkip)
           ELSE LET acc == Plus(delta, Whole(timeDiff))
                    r == [delta |-> Minus(acc, interval), now |-> c0 + cost,
                          count |-> 1, broke |-> FALSE, started |-> c0]
                    fpsNow == (Ms(1000) * 1000) \div (c0 - fpsLast)
                IN  /\ fpsFrames' = Record(fpsFrames, fpsNow)
                    /\ frameLog' = <<fpsNow>> \o frameLog
                    /\ fpsLast' = c0
                    /\ delta' = NextDelta1(timeDiff)
                    /\ deltaRound' \in Residue1(acc, exact)
                    /\ lastFrameStart' = time
                    /\ universe' = universe + 1
                    /\ ticks' = ticks + 1
                    /\ DrawCells
                    /\ now' = r.now
                    /\ raf' = time
                    /\ frameNo' = frameNo + 1
                    /\ last' = RunInfo(time, c0, timeDiff, acc, r, 0, 0, SpanAt(g),
                                       <<eSkip, 0, 0>>)
                    /\ pauseSpan' = 0
                    /\ UNCHANGED <<rev, paused, interval, lastFrameEnd, tickTimes,
                                   slider, period, muts, clicks, tickLog>>

\* Revision 2 (src/unnamed/part_000 168-195): one iteration of while (true).
RenderLoop2(g, cost) ==
    /\ rev = 2
    /\ LET time == raf + g
           c0 == Max(now, time)
           timeDiff == time - lastFrameStart
           exact == Unrounded(time)
           acc == Plus(delta, Whole(timeDiff))
           tie == TieTick(c0, time, cost, Ms(BudgetMs))
       IN  \E eSkip \in RoundingsOf(SkipTies(timeDiff), exact) :
           IF Skip(timeDiff, eSkip)
           THEN Continue(g, time, c0, timeDiff, eSkip)
           ELSE \E eBudget \in RoundingsOf(tie > 0, Exact(time) /\ Exact(c0 + tie * cost)) :
                \E r0 \in {CatchUp2(LoopEntry(acc, c0, <<>>), time, cost, 0, eBudget)} :
                \E eLoop \in RoundingsOf(LoopTies(r0), exact) :
                \E r \in {IF eLoop > 0
                          THEN CatchUp2(LoopEntry(acc, c0, <<>>), time, cost, eLoop, eBudget)
                          ELSE r0} :
                LET rLoop == eLoop
                    rBudget == IF tie > 0 /\ r.count >= tie THEN eBudget ELSE 0
                IN  /\ fpsFrames' = Record(fpsFrames, c0 - fpsLast)
                    /\ frameLog' = <<c0 - fpsLast>> \o frameLog
                    /\ fpsLast' = c0
                    /\ lastFrameStart' = time
                    /\ universe' = universe + r.count
                    /\ ticks' = ticks + r.count
                    /\ delta' = Clamp(r.delta)
                    /\ deltaRound' = Residue(r, exact, eLoop)
                    /\ DrawCells
                    /\ now' = r.now
                    /\ raf' = time
                    /\ frameNo' = frameNo + 1
                    /\ last' = RunInfo(time, c0, timeDiff, acc, r, 0, Ms(BudgetMs),
                                       SpanAt(g), <<eSkip, rLoop, rBudget>>)
                    /\ pauseSpan' = 0
                    /\ UNCHANGED <<rev, paused, interval, lastFrameEnd, tickTimes,
                                   slider, period, muts, clicks, tickLog>>

\* Revision 3 (src/www/index.ts 339-374): one iteration of while (true).
RenderLoop3(g, cost) ==
    /\ rev = 3
    /\ LET thisFrameStart == raf + g
           c0 == Max(now, thisFrameStart)
           timeDiff == thisFrameStart - lastFrameStart
           exact == Unrounded(thisFrameStart)
           acc == Plus(delta, Whole(timeDiff))
           idleTime == thisFrameStart - lastFrameEnd
           maxFrameTime == MaxFrameTime(idleTime)
           tie == TieTick(c0, thisFrameStart, cost, maxFrameTime)
           exactBudget ==
               /\ Exact(thisFrameStart) /\ Exact(c0 + tie * cost)
               /\ idleTime * 4 > Ms(BudgetCapMs) \/ Exact(lastFrameEnd)
       IN  \E eSkip \in RoundingsOf(SkipTies(timeDiff), exact) :
           IF Skip(timeDiff, eSkip)
           THEN Continue(g, thisFrameStart, c0, timeDiff, eSkip)
           ELSE \E eBudget \in RoundingsOf(tie > 0, exactBudget) :
                \E r0 \in {CatchUp3(LoopEntry(acc, c0, tickTimes), thisFrameStart,
                                   maxFrameTime, cost, 0, eBudget)} :
                \E eLoop \in RoundingsOf(LoopTies(r0), exact) :
                \E r \in {IF eLoop > 0
                          THEN CatchUp3(LoopEntry(acc, c0, tickTimes), thisFrameStart,
                                        maxFrameTime, cost, eLoop, eBudget)
                          ELSE r0} :
                LET rLoop == eLoop
                    rBudget == IF tie > 0 /\ r.count >= tie THEN eBudget ELSE 0
                IN  /\ lastFrameStart' = thisFrameStart
                    /\ fpsFrames' = Record(fpsFrames, c0 - fpsLast)
                    /\ frameLog' = <<c0 - fpsLast>> \o frameLog
                    /\ fpsLast' = c0
                    /\ universe' = universe + r.count
                    /\ ticks' = ticks + r.count
                    /\ tickTimes' = r.tt
                    /\ tickLog' = TickStamps(c0, cost, r.count) \o tickLog
                    /\ delta' = Clamp(r.delta)
                    /\ deltaRound' = Residue(r, exact, eLoop)
                    /\ DrawCells
                    /\ lastFrameEnd' = r.now
                    /\ now' = r.now
                    /\ raf' = thisFrameStart
                    /\ frameNo' = frameNo + 1
                    /\ last' = RunInfo(thisFrameStart, c0, timeDiff, acc, r,
                                       idleTime, maxFrameTime, SpanAt(g),
                                       <<eSkip, rLoop, rBudget>>)
                    /\ pauseSpan' = 0
                    /\ UNCHANGED <<rev, paused, interval, slider, period, muts, clicks>>

\* playPauseButton "click": paused = !paused
PlayPauseClick ==
    /\ rev # 0
    /\ clicks <= MaxClicks
    /\ clicks' = clicks + 1
    /\ paused' = Toggle(paused)
    /\ UNCHANGED <<rev, interval, delta, deltaRound, lastFrameStart, lastFrameEnd,
                   tickTimes, fpsFrames, fpsLast, slider, universe, canvas, draws,
                   now, raf, period, frameNo, muts, ticks, tickLog, frameLog,
                   pauseSpan, last>>

\* rateSlider "input" that also forgets the debt: interval = 1000 / rate;
\* delta = 0
RateInputReset(raw) ==
    /\ rev \in {2, 3}
    /\ raw # slider
    /\ slider' = raw
    /\ interval' = IntervalOf(raw)
    /\ delta' = Whole(0)
    /\ deltaRound' = 0
    /\ UNCHANGED <<rev, paused, lastFrameStart, lastFrameEnd, tickTimes,
                   fpsFrames, fpsLast, universe, canvas, draws, now, raf,
                   period, frameNo, muts, ticks, clicks, tickLog, frameLog,
                   pauseSpan, last>>

\* rateSlider "input" (revisions 2 and 3): interval = 1000 / rate
RateInput(raw) ==
    /\ rev \in {2, 3}
    /\ raw # slider
    /\ slider' = raw
    /\ interval' = IntervalOf(raw)
    /\ UNCHANGED <<rev, paused, delta, deltaRound, lastFrameStart, lastFrameEnd,
                   tickTimes, fpsFrames, fpsLast, universe, canvas, draws, now,
                   raf, period, frameNo, muts, ticks, clicks, tickLog, frameLog,
                   pauseSpan, last>>

\* canvas "click": universe.toggle_cell(row, col); drawCells();
CanvasClick ==
    /\ rev # 0
    /\ muts < MaxMutations
    /\ muts' = muts + 1
    /\ universe' = universe + 1
    /\ DrawCells
    /\ UNCHANGED <<rev, paused, interval, delta, deltaRound, lastFrameStart,
                   lastFrameEnd, tickTimes, fpsFrames, fpsLast, slider, now, raf,
                   period, frameNo, ticks, clicks, tickLog, frameLog, pauseSpan,
                   last>>

\* clearButton "click" (revision 3): universe.reset_cells(); drawCells();
ClearClick ==
    /\ rev = 3
    /\ muts < MaxMutations
    /\ muts' = muts + 1
    /\ universe' = universe + 1
    /\ DrawCells
    /\ UNCHANGED <<rev, paused, interval, delta, deltaRound, lastFrameStart,
                   lastFrameEnd, tickTimes, fpsFrames, fpsLast, slider, now, raf,
                   period, frameNo, ticks, clicks, tickLog, frameLog, pauseSpan,
                   last>>

\* No iteration has run yet.
NoInfo ==
    [kind |-> "init", paused |-> TRUE, ts |-> StartTime, c0 |-> StartTime,
     end |-> StartTime, timeDiff |-> 0, interval |-> Whole(0),
     delta0 |-> Whole(0), acc |-> Whole(0), k |-> 0, broke |-> FALSE,
     debt |-> Whole(0), idle |-> 0, budget |-> 0,
     started |-> StartTime, pauseSpan |-> 0, fpsSeen |-> -1, tpsSeen |-> -1,
     rSkip |-> 0, rLoop |-> 0, rBudget |-> 0,
     prev |-> [k |-> 0, broke |-> FALSE, debt |-> Whole(0),
               interval |-> Whole(0)]]

\* The canvas page after its top-level code ran: playPauseButton.click() made
\* paused true, the slider's "input" event set interval, renderLoop drew the
\* cells and awaits its first frame.
\* raws: the positions the slider may be at when the page loads.
InitPage(raws) ==
    /\ rev \in {1, 2, 3}
    /\ slider \in (IF rev = 1 THEN {0} ELSE raws)
    /\ interval = (IF rev = 1 THEN FixedInterval ELSE IntervalOf(slider))
    /\ delta = Whole(0)
    /\ deltaRound = 0
    /\ lastFrameStart = StartTime
    /\ lastFrameEnd = 0
    /\ tickTimes = <<>>
    /\ fpsFrames = <<>>
    /\ fpsLast = StartTime
    /\ universe = 0
    /\ canvas = 0
    /\ draws = 1
    /\ now = StartTime
    /\ frameNo = 0
    /\ muts = 0
    /\ ticks = 0
    /\ tickLog = <<>>
    /\ frameLog = <<>>
    /\ pauseSpan = 0
    /\ last = NoInfo

InitProgram == InitPage(RawValues)

\* The text page (src/www/index.js) when its loop awaits the first frame: the
\* text of the new universe was rendered, then the universe ticked once. The
\* page has no button, no slider, no interval and no accumulator.
InitText ==
    /\ rev = 0
    /\ paused = FALSE
    /\ clicks = 0
    /\ slider = 0
    /\ interval = Whole(0)
    /\ delta = Whole(0)
    /\ deltaRound = 0
    /\ lastFrameStart = StartTime
    /\ lastFrameEnd = 0
    /\ tickTimes = <<>>
    /\ fpsFrames = <<>>
    /\ fpsLast = StartTime
    /\ universe = 1
    /\ canvas = 0
    /\ draws = 1
    /\ now = StartTime
    /\ raf = StartTime
    /\ period = 0
    /\ frameNo = 0
    /\ muts = 0
    /\ ticks = 1
    /\ tickLog = <<>>
    /\ frameLog = <<>>
    /\ pauseSpan = 0
    /\ last = NoInfo

\* A canvas page as loaded (paused by the click dispatched at startup), or
\* the text page.
Init ==
    \/ /\ InitProgram
       /\ paused = Toggle(FALSE)
       /\ clicks = 1
       /\ raf = StartTime
       /\ period = 0
    \/ InitText

Frame ==
    \E g \in Gaps, cost \in TickCosts :
        /\ FrameGuard(g, MaxFrames)
        /\ \/ RenderLoop0(g, cost)
           \/ RenderLoop1(g, cost)
           \/ RenderLoop2(g, cost)
           \/ RenderLoop3(g, cost)

Next ==
    \/ Frame
    \/ PlayPauseClick
    \/ \E raw \in RawValues : RateInput(raw)
    \/ CanvasClick
    \/ ClearClick

Spec == Init /\ [][Next]_vars

\* ------------------------------------------------- the 60 Hz scenario

\* Time from the start of renderLoop to the first animation frame.
Offsets == {1, 250, 500}

\* Revision 1 after the user pressed play, on a display whose refresh period
\* is half the interval (60 Hz against the 30 Hz target).
Init60 ==
    /\ InitProgram
    /\ rev = 1
    /\ paused = Toggle(Toggle(FALSE))
    /\ clicks = 2
    /\ period = Period60
    /\ raf \in {StartTime - period + d : d \in Offsets}

Frame60 ==
    \E cost \in TickCosts :
        /\ FrameGuard(period, MaxScenarioFrames)
        /\ RenderLoop1(period, cost)

Spec60 == Init60 /\ [][Frame60]_vars

\* ------------------------------------------------- the 112 Hz scenario

\* The slider's middle position: rate 112, interval 1000 / 112 ms.
Raw112 == 50
\* 187.5 ms: 21 intervals of 1000 / 112 ms.
Period187 == Ms(375) \div 2

\* A slider revision after the user moved the slider to the middle and
\* pressed play, on frames that arrive 187.5 ms apart.
Init112 ==
    /\ InitPage({Raw112})
    /\ rev \in {2, 3}
    /\ paused = Toggle(Toggle(FALSE))
    /\ clicks = 2
    /\ period = Period187
    /\ raf = StartTime

Frame112 ==
    \E cost \in TickCosts :
        /\ FrameGuard(period, MaxStallFrames)
        /\ \/ RenderLoop2(period, cost)
           \/ RenderLoop3(period, cost)

Spec112 == Init112 /\ [][Frame112]_vars

\* ------------------------------------------------- the slider's range

\* Every integer position of the slider ("Convert 0-25-100 to 0.2-1-1000").
SliderPositions == 0..100

\* The page as loaded with the slider at any position.
InitRate ==
    /\ InitPage(SliderPositions)
    /\ paused = Toggle(FALSE)
    /\ clicks = 1
    /\ raf = StartTime
    /\ period = 0

NextRate == \E raw \in SliderPositions : RateInput(raw)

SpecRate == InitRate /\ [][NextRate]_vars

\* ------------------------------------------ a display of regular period

\* Refresh periods: 16.667 ms (60 Hz), 1000 ms, 5000 ms.
RegularPeriods == {Period60, Ms(1000), Ms(5000)}
\* Duration of one universe.tick() in these runs.
RegularCost == Ms(2)
\* Positions of the slider in these runs: 1 Hz, 112 Hz (an interval of 8.93 ms,
\* a fraction of a unit and rounded in the program), 1000 Hz.
RegularRaws == RawValues \cup {50}

\* A canvas revision after the user pressed play, the slider left where it
\* was, on a display that delivers a frame every `period` (revision 1 on a
\* 60 Hz display is the scenario of Spec60).
InitRegular ==
    /\ InitPage(RegularRaws)
    /\ paused = Toggle(Toggle(FALSE))
    /\ clicks = 2
    /\ period \in (IF rev = 1 THEN RegularPeriods \ {Period60} ELSE RegularPeriods)
    /\ raf = StartTime

FrameRegular ==
    /\ FrameGuard(period, MaxRegularFrames)
    /\ \/ RenderLoop1(period, RegularCost)
       \/ RenderLoop2(period, RegularCost)
       \/ RenderLoop3(period, RegularCost)

SpecRegular == InitRegular /\ [][FrameRegular]_vars

\* The step that delivers the next frame, seen from the frame counter: a
\* FrameRegular step is one, and none is possible once the run's frames are
\* used up.
FrameArrives == frameNo < MaxRegularFrames /\ frameNo' = frameNo + 1

\* The display keeps delivering frames: requestAnimationFrame calls back, and
\* an iteration always ends (the catch-up loop runs finitely many ticks).
SpecLive == SpecRegular /\ WF_frameNo(FrameArrives)

\* ------------------------------------------------------------ properties

\* The latest iteration ran to its end (was not skipped).
Processed == last.kind = "run"
\* The latest iteration hit `continue`.
Skipped == last.kind = "skip"

\* C1: while paused is true no step of the program calls universe.tick(),
\* whatever the frame's timestamp and whatever the rate was changed to.
C1_PausedNeverTicks == [][paused => ticks' = ticks]_vars

\* C1 witness: a frame arrived while paused with enough elapsed time to be
\* processed had the loop not been paused, and no tick has ever run.
C1_Witness ==
    /\ Skipped /\ last.paused
    /\ AtMost(Minus(last.interval, last.delta0), Whole(last.timeDiff))
    /\ Below(last.interval, Whole(last.timeDiff))
    /\ ticks = 0

\* C2 as stated: the accumulator delta is never negative, as the program
\* holds it: not in exact arithmetic, and not by a rounding error where the
\* exact value is 0.
C2_DeltaNonNegative == AtMost(Whole(0), delta) /\ deltaRound >= 0

C4_PauseAddsNoDebt ==
    Processed =>
        AtMost(last.acc, Plus(last.delta0, Whole(last.timeDiff - last.pauseSpan)))

\* C5 as stated: in a processed frame of a revision with a catch-up loop the
\* loop ends and its k ticks satisfy k * interval < A, A being delta on entry
\* of the loop (delta before the frame plus timeDiff): the universe is never
\* stepped for more debt than was accumulated. For one tick this is the test
\* the loop itself made on its doubles; for more ticks it is a product the
\* program never forms.
C5_BoundedCatchUp ==
    (Processed /\ rev \in {2, 3}) =>
        /\ last.acc = Plus(last.delta0, Whole(last.timeDiff))
        /\ last.k = 1 => Greater(last.acc, last.interval, last.rLoop)
        /\ last.k >= 2 => Below(Times(last.k, last.interval), last.acc)

\* C6: after a processed frame delta is at most the interval of that frame.
C6_ClampedAfterRun == Processed => AtMost(delta, last.interval)

\* C6 witness: revision 1 after a stall: the debt exceeded the interval and
\* delta was cut to it.
C6_Witness ==
    /\ Processed /\ rev = 1
    /\ Below(last.interval, last.debt) /\ delta = last.interval

\* C7 as stated: with the interval twice the frame period, unpaused from the
\* start, a frame runs at most one tick, the first tick runs in the second or
\* third frame, and from then on a frame ticks exactly when the one before
\* did not.
C7_EveryOtherFrame ==
    /\ last.k \in {0, 1}
    /\ frameNo >= 3 => ticks > 0
    /\ ticks > 0 => ((last.k = 1) # (last.prev.k = 1))

\* C8: in revision 3 the budget is min(100 ms, 4 * idle time), idle time being
\* the frame's timestamp minus lastFrameEnd; no tick after the first starts
\* once the time since the frame's timestamp exceeds the budget; the loop
\* breaks only when it does (as the doubles compare); and debt above one
\* interval left at a break is clamped to exactly one interval.
C8_BudgetStopsCatchUp ==
    (Processed /\ rev = 3) =>
        /\ last.budget = Min(Ms(BudgetCapMs), 4 * last.idle)
        /\ last.k >= 2 => last.started - last.ts <= last.budget
        /\ last.broke =>
               Greater(Whole(last.end - last.ts), Whole(last.budget), last.rBudget)
        /\ (~last.broke) => AtMost(last.debt, last.interval)
        /\ (last.broke /\ Below(last.interval, last.debt)) =>
               (delta = last.interval /\ Below(Whole(0), delta))

\* C8 witness: 1000 Hz target, a 16.667 ms frame, a budget set by a small
\* idle time: the loop broke before 16 ticks and left one interval of debt.
C8_Witness ==
    /\ Processed /\ rev = 3
    /\ last.interval = Whole(Ms(1)) /\ last.timeDiff = Period60
    /\ last.budget < Ms(BudgetCapMs)
    /\ last.broke /\ last.k < 16
    /\ Below(last.interval, last.debt) /\ delta = last.interval

\* C9 as stated: the debt left when the loop breaks on the budget is carried
\* whole into the next frame.
C9_DebtCarriedWhole ==
    (Processed /\ last.broke) => delta = last.debt

\* C9 amended: of the debt left at a break at most one interval is carried
\* into the next frame (delta = min(interval, debt)): the iteration after a
\* break starts from that, and the debt beyond one interval is dropped.
C9_DebtCarriedClamped ==
    /\ (Processed /\ last.broke) => delta = Least(last.interval, last.debt)
    /\ (last.kind # "init" /\ last.prev.broke) =>
           last.delta0 = Least(last.prev.interval, last.prev.debt)

\* C9 witness: the frame after a break that left more than one interval of
\* debt was processed, starting from one interval.
C9_Witness ==
    /\ Processed /\ last.prev.broke
    /\ Below(last.prev.interval, last.prev.debt)
    /\ last.delta0 = last.prev.interval
    /\ last.k >= 1

\* A step that delivers a frame whose iteration hits `continue`.
SkipStep == frameNo' # frameNo /\ last'.kind = "skip"

\* C10 as stated: an iteration that is skipped still calls drawCells().
C10_SkipDraws == [][SkipStep => draws' = draws + 1]_vars

\* C10 amended: an iteration that is skipped calls no drawCells() and changes
\* nothing of the program; the canvas keeps showing the current cells.
C10_SkipDrawsNothing ==
    [][SkipStep =>
          /\ draws' = draws
          /\ canvas' = canvas /\ canvas' = universe'
          /\ UNCHANGED <<paused, interval, delta, lastFrameStart, lastFrameEnd,
                         tickTimes, fpsFrames, fpsLast, universe, ticks>>]_vars

\* C10 witness: frames were skipped, while paused, after cells were drawn by
\* a processed frame and by a click on the canvas.
C10_Witness ==
    /\ Skipped /\ last.paused /\ last.prev.k >= 1
    /\ muts >= 1 /\ draws >= 3 /\ canvas = universe

\* A step that delivers a frame whose iteration runs to its end.
RunStep == frameNo' # frameNo /\ last'.kind = "run"

\* C11 as stated: whenever the event loop is idle the page shows the current
\* cells:
\* every processed iteration calls drawCells() exactly once, after all of its
\* ticks; every toggle_cell / reset_cells is followed by drawCells() in the
\* same handler, paused or not; and no step changes the cells without drawing
\* them.
C11_CanvasShowsUniverse ==
    /\ [](canvas = universe)
    /\ [][/\ RunStep => (draws' = draws + 1 /\ universe' = universe + last'.k)
          /\ muts' # muts => (draws' = draws + 1 /\ universe' # universe)
          /\ universe' # universe => (draws' = draws + 1 /\ canvas' = universe')
          /\ draws' # draws => (RunStep \/ muts' # muts)]_vars

\* A step that delivers, while not paused, a frame whose timeDiff is exactly
\* interval - delta, as the program computes the two.
TieStep ==
    /\ frameNo' # frameNo /\ ~paused /\ rev # 0
    /\ Whole(raf' - lastFrameStart) = Minus(interval, delta)
    /\ last'.rSkip = 0

\* C12: an unpaused frame whose timeDiff equals interval - delta is processed,
\* not skipped: timeDiff goes into the accumulator, lastFrameStart becomes the
\* frame's timestamp and the cells are drawn.
C12_TieIsProcessed ==
    [][TieStep =>
          /\ last'.kind = "run"
          /\ last'.acc = Plus(delta, Whole(raf' - lastFrameStart))
          /\ last'.acc = interval
          /\ lastFrameStart' = raf'
          /\ draws' = draws + 1]_vars

\* C12 witness: a frame arrived exactly one interval after lastFrameStart
\* with an empty accumulator, unpaused, and was processed.
C12_Witness ==
    /\ Processed /\ ~last.paused
    /\ Whole(last.timeDiff) = Minus(last.interval, last.delta0) /\ last.rSkip = 0
    /\ last.acc = last.interval
    /\ lastFrameStart = last.ts /\ draws >= 2

\* What the handlers of the rate slider and of the play/pause button must
\* leave alone, besides each other's variable.
SchedulerState ==
    <<delta, deltaRound, lastFrameStart, lastFrameEnd, tickTimes, fpsFrames,
      fpsLast, universe, canvas, draws, ticks, frameNo, muts>>

\* C13: a rate change modifies interval only and a pause toggle modifies
\* paused only: delta, lastFrameStart, lastFrameEnd, both sample windows and
\* the cells are unchanged, nothing ticks, nothing is drawn; nothing else
\* modifies interval or paused; and the next frame compares the debt it finds,
\* not reset, with the interval in force when it arrives.
C13_HandlersTouchOwnVariable ==
    [][/\ interval' # interval => (paused' = paused /\ UNCHANGED SchedulerState)
       /\ paused' # paused => (interval' = interval /\ UNCHANGED SchedulerState)
       /\ slider' # slider => interval' = IntervalOf(slider')
       /\ clicks' # clicks => paused' = ~paused
       /\ frameNo' # frameNo =>
              /\ interval' = interval /\ paused' = paused
              /\ last'.interval = interval /\ last'.delta0 = delta
              /\ (last'.kind = "skip") =
                     (rev # 0 /\ (paused \/ Less(Whole(raf' - lastFrameStart),
                                                  Minus(interval, delta),
                                                  last'.rSkip)))]_vars

\* C13 witness: the rate was raised between two frames while the accumulator
\* held debt; the next frame found the debt as the previous one left it, more
\* than the new interval, and ran several ticks for it.
C13_Witness ==
    /\ Processed /\ last.prev.interval # Whole(0)
    /\ Below(last.interval, last.prev.interval)
    /\ last.delta0 = Least(last.prev.interval, last.prev.debt)
    /\ Below(last.interval, last.delta0) /\ last.k >= 2

\* The samples a window holds after `log` was recorded into it, one by one.
Newest(log) == SubSeq(log, 1, Min(Len(log), WindowCap))

\* C14: after n values were recorded a window holds min(n, 100) of them, the
\* most recent ones, most recent first: fps.frames after one value per
\* processed iteration, tickTimes (revision 3) after one value per tick (the
\* text page has neither window).
C14_WindowKeepsNewest ==
    /\ Len(fpsFrames) = Min(Len(frameLog), WindowCap)
    /\ fpsFrames = Newest(frameLog)
    /\ Len(frameLog) = (IF rev = 0 THEN 0 ELSE draws - 1 - muts)
    /\ Len(tickTimes) = Min(Len(tickLog), WindowCap)
    /\ tickTimes = Newest(tickLog)
    /\ Len(tickLog) = (IF rev = 3 THEN ticks ELSE 0)

\* C14 witness: 150 values were recorded into fps.frames and more into
\* tickTimes; each holds 100, the 100th being the 100th most recent.
C14_Witness ==
    /\ rev = 3
    /\ Len(frameLog) = 150 /\ Len(fpsFrames) = 100
    /\ fpsFrames[1] = frameLog[1] /\ fpsFrames[100] = frameLog[100]
    /\ Len(tickLog) > 150 /\ Len(tickTimes) = 100
    /\ tickTimes[1] = tickLog[1] /\ tickTimes[100] = tickLog[100]

\* C15 as stated: no window is summarized or read while it is empty: when
\* fps.render() summarizes fps.frames, and when the tps figure reads
\* tickTimes, the window holds at least one sample.
C15_NoEmptyWindowRead ==
    Processed => (last.fpsSeen >= 1 /\ last.tpsSeen # 0)

\* C16: the slider's rate is monotone non-decreasing over 0..100, is 0.2 Hz
\* at 0, 1 Hz at 25 by either branch and 1000 Hz at 100, so it lies between
\* 0.2 Hz and 1000 Hz, and the interval derived from it is positive (between
\* 1 ms and 5000 ms, and rate times interval is 1000 ms).
C16_RateMapping ==
    rev \in {2, 3} =>
        /\ interval = IntervalOf(slider)
        /\ RateOf(slider) % interval.d = 0
        /\ (RateOf(slider) \div interval.d) * (interval.w * interval.d + interval.n)
               = Ms(1000) * Hz(1)
        /\ Below(Whole(0), interval)
        /\ AtMost(Whole(Ms(1)), interval) /\ AtMost(interval, Whole(Ms(5000)))
        /\ RateOf(slider) >= Hz(1) \div 5 /\ RateOf(slider) <= Hz(1000)
        /\ \A a \in SliderPositions : a < slider => RateOf(a) <= RateOf(slider)
        /\ slider = 0 => RateOf(slider) = Hz(1) \div 5
        /\ slider = 25 => (RateOf(slider) = Hz(1) /\ RateLow(slider) = RateHigh(slider))
        /\ slider = 100 => RateOf(slider) = Hz(1000)

\* C16 witness: the slider was moved to the boundary of the two branches and
\* the interval is that of 1 Hz.
C16_Witness ==
    /\ rev \in {2, 3} /\ slider = 25
    /\ RateLow(slider) = Hz(1) /\ RateHigh(slider) = Hz(1)
    /\ interval = Whole(Ms(1000))

\* C17: in the slider revisions the budget is tested only after a tick: a
\* processed iteration runs at least one tick exactly when delta, after
\* timeDiff was added, exceeds interval (as the doubles compare), even with a
\* budget of zero or less (then it runs that one tick and breaks); at a tie
\* (the program finds delta + timeDiff equal to interval) it runs no tick and
\* ends with delta = interval.
C17_BudgetTestedAfterTick ==
    (Processed /\ rev \in {2, 3}) =>
        /\ (last.k >= 1) = Greater(last.acc, last.interval, last.rLoop)
        /\ (Below(last.interval, last.acc) /\ last.budget <= 0) =>
               (last.k = 1 /\ last.broke)
        /\ last.broke => last.k >= 1
        /\ (last.acc = last.interval /\ last.rLoop = 0) =>
               (last.k = 0 /\ delta = last.interval /\ deltaRound = 0)

\* C17 witness: revision 3 with a negative budget (the frame's timestamp is
\* earlier than the end of the previous iteration): one tick ran, then the
\* loop broke.
C17_Witness ==
    /\ Processed /\ rev = 3
    /\ last.idle < 0 /\ last.budget < 0
    /\ Below(last.interval, last.acc)
    /\ last.k = 1 /\ last.broke

\* C18: the page starts paused: the click dispatched at startup makes paused
\* true before the first frame; paused is true exactly after an odd number
\* of clicks, the startup click included; and no tick runs before the user's
\* first click.
C18_StartsPaused ==
    /\ paused = (clicks % 2 = 1)
    /\ frameNo = 0 /\ clicks = 1 => paused
    /\ clicks = 1 => ticks = 0

\* C18 witness: frames arrived, more than an interval apart, before the user
\* ever clicked: they were skipped as paused and no tick has run.
C18_Witness ==
    /\ clicks = 1 /\ paused /\ frameNo >= 2
    /\ Skipped /\ Below(last.interval, Whole(last.timeDiff))
    /\ ticks = 0 /\ draws = 1

\* C19 as stated: with the interval never changed the loop never runs ahead
\* of its rate: the ticks run so far, times the interval, never exceed the
\* time from the start of renderLoop to lastFrameStart, as the program holds
\* these values: not in exact arithmetic, and not by rounding. Revision 1
\* holds 1000 / 30 as the double 33.333333333333336, above the exact
\* quotient, so its ticks times its interval exceed an elapsed time that is
\* free of rounding error and equals them in exact arithmetic.
C19_NeverRunsAhead ==
    /\ AtMost(Plus(Times(ticks, interval), delta),
              Whole(lastFrameStart - StartTime))
    /\ (rev = 1 /\ ticks > 0
          /\ Times(ticks, interval) = Whole(lastFrameStart - StartTime)) =>
           ~Exact(lastFrameStart)

\* Frames after which a tick must have run, on a regular display: those
\* until timeDiff reaches interval - delta, and one more in case that frame
\* is a tie and runs no tick.
FramesToTick ==
    LET remaining == Ceiling(Minus(Minus(interval, delta),
                                   Whole(raf - lastFrameStart)))
    IN  Max(1, (remaining + period - 1) \div period) + 1

\* C20: while the loop stays unpaused with its interval fixed and frames keep
\* arriving, a state whose latest iteration ran no tick is followed by an
\* iteration that runs one, within FramesToTick frames (as long as the run
\* has that many frames left).
C20_Progress ==
    (~paused /\ last.k = 0 /\ frameNo + FramesToTick <= MaxRegularFrames)
        ~> (last.k >= 1 /\ ticks >= 1)

\* C20 witness: 1 Hz on a 60 Hz display: the second tick has run, in an
\* iteration that followed one without a tick, after more than 100 frames.
C20_Witness ==
    /\ ~paused /\ period = Period60 /\ interval = Whole(Ms(1000))
    /\ frameNo > 100 /\ ticks >= 2
    /\ last.k = 1 /\ last.prev.k = 0

====
